---- MODULE Spec2Model ----
(***************************************************************************)
(* Calert: the relational store (profiles, user_settings, user_calendars), *)
(* the sync-calendars and fetch-events serverless functions and the        *)
(* frontend writes to the store.                                           *)
(*                                                                         *)
(* A table is a bag of rows: the surrogate key `id` of every table is a    *)
(* fresh UUID and is not modelled, so two rows that agree on every other   *)
(* column are two copies of one bag element.  Every store call is one      *)
(* atomic step; a handler is a sequence of such steps, and the steps of    *)
(* different invocations interleave.  The part of a handler that runs      *)
(* before its first store call (header check, identity lookup, provider    *)
(* request) touches no shared state and is one step.                       *)
(***************************************************************************)
EXTENDS Integers, Sequences, FiniteSets, Bags, TLC

\* ------------------------------------------------------------------ bounds
NumCalendars == 2       \* distinct provider calendar ids
MaxEvents == 2          \* events in one provider answer
MaxTime == 2            \* wall-clock readings 0..MaxTime

\* ------------------------------------------------------------------ values
NULL == "null"
Users == {"u1", "u2"}
Tokens == {"t1", "t2"}
CalendarNames == <<"c1", "c2", "c3", "c4">>
CalendarIds == {CalendarNames[n] : n \in 1..NumCalendars}
Invocations == {1, 2}   \* sync-calendars invocations that may overlap
Nothing == [nothing |-> TRUE]   \* an absent object (null, no row)

\* interface GoogleCalendar: `primary` is optional
CalendarVariants(id, withPrimary) ==
  IF withPrimary
    THEN {[id |-> id]} \cup {[id |-> id, primary |-> b] : b \in BOOLEAN}
    ELSE {[id |-> id]}

\* calendarData.items || []: the provider's calendar lists over the calendars
\* numbered n and up, ids distinct and in the provider's order
RECURSIVE ListsFrom(_, _)
ListsFrom(n, withPrimary) ==
  IF n > NumCalendars THEN {<< >>}
  ELSE LET rest == ListsFrom(n + 1, withPrimary)
       IN  rest \cup {<<g>> \o l : g \in CalendarVariants(CalendarNames[n], withPrimary),
                                   l \in rest}

CalendarLists == ListsFrom(1, TRUE)

\* ------------------------------------------------------------------ store
VARIABLES profiles, user_settings, user_calendars, sync, fetch, dash

vars == <<profiles, user_settings, user_calendars, sync, fetch, dash>>
store == <<profiles, user_settings, user_calendars>>

RECURSIVE SeqToBag(_)
SeqToBag(s) ==
  IF s = <<>> THEN EmptyBag ELSE SetToBag({Head(s)}) (+) SeqToBag(Tail(s))

Rows(table) == BagToSet(table)

\* the rows of `table` owned by one of `owners`, with their multiplicities
OwnedBy(table, owners) ==
  LET S == {r \in Rows(table) : r.user_id \in owners} IN [r \in S |-> table[r]]

\* user_id UUID NOT NULL UNIQUE (profiles, user_settings)
UniqueUserId(table) ==
  \A r \in Rows(table) :
    /\ table[r] = 1
    /\ \A q \in Rows(table) : q.user_id = r.user_id => q = r

\* UNIQUE(user_id, calendar_id) (user_calendars)
UniqueUserCalendar(table) ==
  \A r \in Rows(table) :
    /\ table[r] = 1
    /\ \A q \in Rows(table) :
         (q.user_id = r.user_id /\ q.calendar_id = r.calendar_id) => q = r

\* .from('user_calendars').delete().eq('user_id', uid)
DeleteCalendarsKeepAll(table, uid) == table
DeleteCalendarsOfEveryone(table, uid) == EmptyBag
DeleteCalendars(table, uid) == OwnedBy(table, Users \ {uid})

\* .from('user_calendars').insert(rows): all rows or none
InsertCalendars(table, rows) == table (+) SeqToBag(rows)
InsertAlwaysAllowed(table, rows) == TRUE
InsertAllowed(table, rows) == UniqueUserCalendar(InsertCalendars(table, rows))

\* a user_settings row created by an insert that names only some columns
DefaultSettings(uid) ==
  [user_id |-> uid, selected_calendar_id |-> NULL, service_enabled |-> FALSE,
   google_access_token |-> NULL]

\* .upsert(cols, { onConflict: 'user_id' }): INSERT .. ON CONFLICT (user_id)
\* DO UPDATE SET <the named columns>
Merge(row, cols) ==
  [f \in DOMAIN row |-> IF f \in DOMAIN cols THEN cols[f] ELSE row[f]]

UpsertReplacesRow(table, cols, default) ==
  OwnedBy(table, Users \ {cols.user_id}) (+) SetToBag({Merge(default, cols)})
Upsert(table, cols, default) ==
  LET hit == OwnedBy(table, {cols.user_id})
  IN  IF hit = EmptyBag
        THEN table (+) SetToBag({Merge(default, cols)})
        ELSE OwnedBy(table, Users \ {cols.user_id})
               (+) SeqToBag([k \in 1..BagCardinality(hit) |->
                      Merge(CHOOSE r \in Rows(hit) : TRUE, cols)])

CalendarsOf(uid) == {r \in Rows(user_calendars) : r.user_id = uid}
SettingsOf(uid) == {r \in Rows(user_settings) : r.user_id = uid}

\* ------------------------------------------------------------------ responses
NoResponse == [status |-> 0]
Failure(message) == [status |-> 500, success |-> FALSE, error |-> message]

\* ------------------------------------------------------------------ sync-calendars
NoLog == [delete |-> "none", insert |-> "none", upsert |-> "none"]
IdleSync ==
  [pc |-> "idle", user |-> NULL, providerToken |-> NULL, calendars |-> <<>>,
   log |-> NoLog, response |-> NoResponse]

SyncFailed(i, message) ==
  sync' = [sync EXCEPT ![i] = [IdleSync EXCEPT !.pc = "done",
                                              !.response = Failure(message)]]

\* if (!authHeader)
SyncNoHeader(i) ==
  /\ SyncFailed(i, <<"No authorization header provided">>)
  /\ UNCHANGED store

\* auth.getUser(token) answers with an error
SyncUserError(i) ==
  /\ \E m \in {"invalid JWT"} : SyncFailed(i, <<"Authentication error: ", m>>)
  /\ UNCHANGED store

\* auth.getUser(token) answers without a user
SyncNoUser(i) ==
  /\ SyncFailed(i, <<"User not authenticated">>)
  /\ UNCHANGED store

\* session.data.session?.provider_token is absent
SyncNoProviderToken(i) ==
  /\ SyncFailed(i, <<"No Google access token found. Please reconnect your Google account.">>)
  /\ UNCHANGED store

\* !calendarResponse.ok, checked only after the delete
SyncProviderErrorAfterDelete(i) ==
  /\ \E status \in {401, 500}, errorText \in {"denied"} :
       SyncFailed(i, <<"Google Calendar API error: ", status, " - ", errorText>>)
  /\ \E u \in Users : user_calendars' = DeleteCalendars(user_calendars, u)
  /\ UNCHANGED <<profiles, user_settings>>

\* !calendarResponse.ok
SyncProviderError(i) ==
  /\ \E status \in {401, 500}, errorText \in {"denied"} :
       SyncFailed(i, <<"Google Calendar API error: ", status, " - ", errorText>>)
  /\ UNCHANGED store

\* the provider answered with a calendar list: the handler reaches the delete
SyncFetched(i, callers, tokens, lists) ==
  /\ \E u \in callers, t \in tokens, l \in lists :
       sync' = [sync EXCEPT ![i] = [IdleSync EXCEPT !.pc = "delete", !.user = u,
                                                   !.providerToken = t,
                                                   !.calendars = l]]
  /\ UNCHANGED store

\* lines 21-84: from the request to the provider's answer
SyncBegin(i, callers, tokens, lists) ==
  /\ sync[i].pc \in {"idle", "done"}
  /\ \/ SyncNoHeader(i)
     \/ SyncUserError(i)
     \/ SyncNoUser(i)
     \/ SyncNoProviderToken(i)
     \/ SyncProviderError(i)
     \/ SyncFetched(i, callers, tokens, lists)

\* calendars.map(calendar => ({ user_id, calendar_id, is_primary }))
CalendarRow(uid, calendar) ==
  [user_id |-> uid, calendar_id |-> calendar.id,
   is_primary |-> IF "primary" \in DOMAIN calendar THEN calendar.primary ELSE FALSE]
calendarInserts(uid, calendars) ==
  [k \in DOMAIN calendars |-> CalendarRow(uid, calendars[k])]

AfterDelete(s) == IF Len(s.calendars) > 0 THEN "insert" ELSE "upsert"

\* lines 86-94: the delete; its error is logged and the handler goes on
SyncDelete(i) ==
  LET s == sync[i] IN
  /\ s.pc = "delete"
  /\ \/ /\ user_calendars' = DeleteCalendars(user_calendars, s.user)
        /\ sync' = [sync EXCEPT ![i].pc = AfterDelete(s), ![i].log.delete = "ok"]
     \/ /\ UNCHANGED user_calendars
        /\ sync' = [sync EXCEPT ![i].pc = AfterDelete(s), ![i].log.delete = "error"]
  /\ UNCHANGED <<profiles, user_settings>>

\* lines 105-113: the insert; its error ends the handler
SyncInsert(i) ==
  LET s == sync[i]
      rows == calendarInserts(s.user, s.calendars)
  IN
  /\ s.pc = "insert"
  /\ \/ /\ InsertAllowed(user_calendars, rows)
        /\ user_calendars' = InsertCalendars(user_calendars, rows)
        /\ sync' = [sync EXCEPT ![i].pc = "upsert", ![i].log.insert = "ok"]
     \/ /\ UNCHANGED user_calendars
        /\ \E m \in IF InsertAllowed(user_calendars, rows)
                      THEN {"store unavailable"}
                      ELSE {"duplicate key value violates unique constraint"} :
             sync' = [sync EXCEPT ![i] =
                        [IdleSync EXCEPT !.pc = "done",
                                         !.log = [s.log EXCEPT !.insert = "error"],
                                         !.response = Failure(<<"Error inserting calendars: ", m>>)]]
  /\ UNCHANGED <<profiles, user_settings>>

SyncSuccess(s) ==
  [status |-> 200, success |-> TRUE,
   calendars |-> calendarInserts(s.user, s.calendars),
   message |-> <<"Successfully synced ", Len(s.calendars), " calendars">>]

\* the invocation has answered: its locals are gone, its log is kept
SyncAnswered(s, upsert) ==
  [IdleSync EXCEPT !.pc = "done", !.log = [s.log EXCEPT !.upsert = upsert],
                   !.response = SyncSuccess(s)]

\* lines 117-139: the settings upsert, its error logged, and the 200 response
SyncUpsert(i) ==
  LET s == sync[i] IN
  /\ s.pc = "upsert"
  /\ \/ /\ user_settings' =
             Upsert(user_settings,
                    [user_id |-> s.user, google_access_token |-> s.providerToken],
                    DefaultSettings(s.user))
        /\ sync' = [sync EXCEPT ![i] = SyncAnswered(s, "ok")]
     \/ /\ UNCHANGED user_settings
        /\ sync' = [sync EXCEPT ![i] = SyncAnswered(s, "error")]
  /\ UNCHANGED <<profiles, user_calendars>>

\* ------------------------------------------------------------------ frontend writes
\* the Dashboard's local `settings` state: null or the loaded row's fields
LocalSettings(tokens) ==
  {Nothing} \cup [selected_calendar_id : CalendarIds \cup {NULL},
                  service_enabled : BOOLEAN,
                  google_access_token : tokens \cup {NULL}]

\* updateCalendarSelection: the upserted columns
SelectionColumns(uid, calendarId, settings) ==
  [user_id |-> uid, selected_calendar_id |-> calendarId,
   service_enabled |-> IF settings # Nothing THEN settings.service_enabled ELSE FALSE]

\* toggleService: the upserted columns (an undefined value is not sent)
ToggleColumns(uid, enabled, settings) ==
  IF settings # Nothing
    THEN [user_id |-> uid, selected_calendar_id |-> settings.selected_calendar_id,
          service_enabled |-> enabled]
    ELSE [user_id |-> uid, service_enabled |-> enabled]

\* the store call of updateCalendarSelection, for any local state of the page
UpdateCalendarSelection(uid, locals) ==
  /\ \E calendarId \in CalendarIds, settings \in locals :
       user_settings' = Upsert(user_settings,
                               SelectionColumns(uid, calendarId, settings),
                               DefaultSettings(uid))
  /\ UNCHANGED <<profiles, user_calendars, sync, fetch, dash>>

\* the store call of toggleService, for any local state of the page
ToggleService(uid, locals) ==
  /\ \E enabled \in BOOLEAN, settings \in locals :
       user_settings' = Upsert(user_settings,
                               ToggleColumns(uid, enabled, settings),
                               DefaultSettings(uid))
  /\ UNCHANGED <<profiles, user_calendars, sync, fetch, dash>>

\* the identity provider's user object
Email(uid) == IF uid = "u1" THEN "u1@example.com" ELSE "u2@example.com"
LocalPart(email) == IF email = "u1@example.com" THEN "u1" ELSE "u2"
AuthUsers(uid) ==
  {[id |-> uid, email |-> Email(uid), user_metadata |-> m] :
     m \in {[avatar_url |-> NULL], [avatar_url |-> NULL, full_name |-> "Full Name"]}}

DefaultProfile(uid) ==
  [user_id |-> uid, email |-> NULL, display_name |-> NULL, avatar_url |-> NULL]

\* user.user_metadata?.full_name || user.email?.split('@')[0]
DisplayName(user) ==
  IF "full_name" \in DOMAIN user.user_metadata
    THEN user.user_metadata.full_name
    ELSE LocalPart(user.email)

\* createOrUpdateProfile: an error is logged and nothing else happens
createOrUpdateProfile(uid) ==
  /\ \E user \in AuthUsers(uid) :
       profiles' = Upsert(profiles,
                          [user_id |-> user.id, email |-> user.email,
                           display_name |-> DisplayName(user),
                           avatar_url |-> user.user_metadata.avatar_url],
                          DefaultProfile(uid))
  /\ UNCHANGED <<user_settings, user_calendars, sync, fetch, dash>>

\* ------------------------------------------------------------------ fetch-events
\* an RFC 3339 dateTime: a wall-clock reading and its UTC offset
DateTimes == [wall : 0..MaxTime, off : {0, 1}]
EndOfWindow == [wall |-> MaxTime + 1, off |-> 0]

\* new Date(dateTime): the instant the string denotes
Instant(dateTime) == dateTime.wall - dateTime.off

\* interface GoogleEvent: start and end carry `dateTime` or, all-day, `date`.
\* summary, description, location and the links are copied or defaulted one
\* by one and are left out.
GoogleEvent ==
  [id : 1..MaxEvents,
   start : [dateTime : DateTimes] \cup [date : {0}],
   end : [dateTime : {EndOfWindow}] \cup [date : {1}]]

\* where orderBy=startTime places an event
StartInstant(event) ==
  IF "dateTime" \in DOMAIN event.start
    THEN Instant(event.start.dateTime)
    ELSE event.start.date

\* eventsData.items || []: singleEvents=true, orderBy=startTime
EventLists ==
  {l \in UNION {[1..n -> GoogleEvent] : n \in 0..MaxEvents} :
     /\ \A k \in DOMAIN l : l[k].id = k
     /\ \A a, b \in DOMAIN l : a < b => StartInstant(l[a]) <= StartInstant(l[b])}

\* event.start.dateTime && event.end.dateTime
IsTimedStartOnly(event) == "dateTime" \in DOMAIN event.start
IsTimed(event) ==
  "dateTime" \in DOMAIN event.start /\ "dateTime" \in DOMAIN event.end

FormatEvent(event) ==
  [id |-> event.id,
   startTime |-> IF "dateTime" \in DOMAIN event.start
                   THEN event.start.dateTime ELSE Nothing,
   endTime |-> IF "dateTime" \in DOMAIN event.end
                 THEN event.end.dateTime ELSE Nothing]

\* events.filter(..).map(..)
filteredEvents(events) ==
  LET kept == SelectSeq(events, IsTimed)
  IN  [k \in DOMAIN kept |-> FormatEvent(kept[k])]

\* eventStart > now
IsUpcomingOrNow(event, now) == Instant(event.startTime) >= now
IsUpcoming(event, now) == Instant(event.startTime) > now

\* filteredEvents.find(..) || null
nextEvent(formatted, now) ==
  LET hits == {k \in DOMAIN formatted : IsUpcoming(formatted[k], now)}
  IN  IF hits = {} THEN Nothing
      ELSE formatted[CHOOSE k \in hits : \A j \in hits : k <= j]

\* .from('user_settings').select('*').eq('user_id', uid).single()
Single(table, uid) ==
  LET hit == OwnedBy(table, {uid})
  IN  IF BagCardinality(hit) = 1 THEN CHOOSE r \in Rows(hit) : TRUE ELSE Nothing

NotFound == <<"User settings not found. Please complete setup first.">>
NotEnabled == <<"Calert service is not enabled">>
NoCalendar == <<"No calendar selected">>
NoToken == <<"No Google access token found. Please reconnect your Google account.">>
TokenExpired == <<"Google access token expired. Please reconnect your Google account.">>
UpstreamError(status, errorText) ==
  <<"Google Calendar API error: ", status, " - ", errorText>>

\* lines 71-85: the four checks, in order; << >> when all pass
PreconditionErrorNoEnabledCheck(settings) ==
  IF settings = Nothing THEN NotFound
  ELSE IF settings.selected_calendar_id = NULL THEN NoCalendar
  ELSE IF settings.google_access_token = NULL THEN NoToken
  ELSE << >>
PreconditionError(settings) ==
  IF settings = Nothing THEN NotFound
  ELSE IF ~settings.service_enabled THEN NotEnabled
  ELSE IF settings.selected_calendar_id = NULL THEN NoCalendar
  ELSE IF settings.google_access_token = NULL THEN NoToken
  ELSE << >>

IdleFetch ==
  [pc |-> "idle", user |-> NULL, settings |-> Nothing, now |-> 0,
   requests |-> 0, upstream |-> Nothing, events |-> << >>,
   response |-> NoResponse]

FetchFailed(message) ==
  fetch' = [IdleFetch EXCEPT !.pc = "done", !.response = Failure(message)]

\* lines 45-60: header and identity
FetchBegin(callers) ==
  /\ fetch.pc \in {"idle", "done"}
  /\ \/ FetchFailed(<<"No authorization header provided">>)
     \/ \E m \in {"invalid JWT"} : FetchFailed(<<"Authentication error: ", m>>)
     \/ FetchFailed(<<"User not authenticated">>)
     \/ \E u \in callers : fetch' = [IdleFetch EXCEPT !.pc = "settings", !.user = u]
  /\ UNCHANGED <<store, sync, dash>>

\* lines 64-97: the settings read, the four checks, and `now`
FetchSettings ==
  /\ fetch.pc = "settings"
  /\ \E settings \in {Single(user_settings, fetch.user), Nothing} :
       IF PreconditionError(settings) # << >>
         THEN fetch' = [fetch EXCEPT !.pc = "done", !.settings = settings,
                          !.response = Failure(PreconditionError(settings))]
         ELSE \E now \in 0..MaxTime :
                fetch' = [fetch EXCEPT !.pc = "events", !.settings = settings,
                            !.now = now]
  /\ UNCHANGED <<store, sync, dash>>

\* lines 118-122: a non-success answer of the provider
UpstreamFailureAlwaysGeneric(status, errorText) == UpstreamError(status, errorText)
UpstreamFailure(status, errorText) ==
  IF status = 401 THEN TokenExpired ELSE UpstreamError(status, errorText)

FetchSuccess(events, now) ==
  [status |-> 200, success |-> TRUE,
   events |-> filteredEvents(events),
   nextEvent |-> nextEvent(filteredEvents(events), now),
   totalCount |-> Len(filteredEvents(events))]

\* lines 99-165: the one request to the provider's events endpoint, and the
\* answer, the provider's event list being one of `lists`
FetchEventsFrom(lists) ==
  /\ fetch.pc = "events"
  /\ \/ \E status \in {401, 403}, errorText \in {"denied"} :
          fetch' = [fetch EXCEPT !.pc = "done", !.requests = @ + 1,
                      !.upstream = [status |-> status, body |-> errorText],
                      !.response = Failure(UpstreamFailure(status, errorText))]
     \/ \E events \in lists :
          fetch' = [fetch EXCEPT !.pc = "done", !.requests = @ + 1,
                      !.upstream = [status |-> 200], !.events = events,
                      !.response = FetchSuccess(events, fetch.now)]
  /\ UNCHANGED <<store, sync, dash>>

FetchEvents == FetchEventsFrom(EventLists)

\* ------------------------------------------------------------------ Dashboard
\* the fields of a user_settings row that the page keeps and reads
AsUserSettings(row) ==
  [selected_calendar_id |-> row.selected_calendar_id,
   service_enabled |-> row.service_enabled,
   google_access_token |-> row.google_access_token]

\* settingsData || { selected_calendar_id: null, service_enabled: false, .. }
LoadedSettings(data) ==
  IF data # Nothing
    THEN AsUserSettings(data)
    ELSE [selected_calendar_id |-> NULL, service_enabled |-> FALSE,
          google_access_token |-> NULL]

\* the rows a select answers with, as an array
RECURSIVE AsArray(_)
AsArray(rows) ==
  IF rows = {} THEN << >>
  ELSE LET r == CHOOSE r \in rows : TRUE IN <<r>> \o AsArray(rows \ {r})

\* calendarsData.map(cal => ({ id: cal.calendar_id, .., primary: cal.is_primary }))
calendarItems(calendarsData) ==
  [k \in DOMAIN calendarsData |->
     [id |-> calendarsData[k].calendar_id, primary |-> calendarsData[k].is_primary]]

\* the component right after mounting (useState initial values); the effect
\* has called loadUserData, whose first read is pending.  `linked` tells
\* whether the session comes out of the Google OAuth round trip, `request`
\* how the request of the last mutation ended.
Mounted(linked) ==
  [settings |-> Nothing, calendars |-> << >>, loading |-> TRUE,
   updating |-> FALSE, toast |-> "none", pc |-> "settings", op |-> "none",
   request |-> "none", calendarId |-> NULL, enabled |-> FALSE, linked |-> linked]

\* settings?.google_access_token !== null (undefined !== null is true)
hasGoogleConnection(settings) ==
  IF settings = Nothing THEN TRUE ELSE settings.google_access_token # NULL

hasCalendars(calendars) == Len(calendars) > 0

\* hasGoogleConnection && hasCalendars && settings?.selected_calendar_id
canEnableService(settings, calendars) ==
  /\ hasGoogleConnection(settings)
  /\ hasCalendars(calendars)
  /\ settings # Nothing
  /\ settings.selected_calendar_id # NULL

\* the page is rendered (not the spinner) and its controls are not disabled
Interactive(d) == ~d.loading /\ ~d.updating

\* the controls the rendered page offers
ConnectOffered(d) == Interactive(d) /\ ~hasGoogleConnection(d.settings)
SyncOffered(d) == Interactive(d) /\ hasGoogleConnection(d.settings)
SelectOffered(d) ==
  Interactive(d) /\ hasGoogleConnection(d.settings) /\ hasCalendars(d.calendars)
ToggleOffered(d) == Interactive(d) /\ canEnableService(d.settings, d.calendars)

\* loadUserData's `finally`, and the `finally` of syncCalendars that awaits it
LoadEnded(d) ==
  [d EXCEPT !.loading = FALSE, !.pc = "idle",
            !.updating = IF d.op = "sync" THEN FALSE ELSE @,
            !.op = IF d.op = "sync" THEN "none" ELSE @]

\* loadUserData, lines 46-62: the settings read
DashLoadSettings(uid) ==
  /\ dash.pc = "settings"
  /\ \/ dash' = LoadEnded([dash EXCEPT !.toast = "Error loading data"])
     \/ dash' = [dash EXCEPT !.pc = "calendars",
                   !.settings = LoadedSettings(Single(user_settings, uid))]
  /\ UNCHANGED <<store, sync, fetch>>

\* loadUserData, lines 64-91: the calendars read
DashLoadCalendars(uid) ==
  /\ dash.pc = "calendars"
  /\ \/ dash' = LoadEnded([dash EXCEPT !.toast = "Error loading data"])
     \/ dash' = LoadEnded([dash EXCEPT !.calendars =
                  calendarItems(AsArray(CalendarsOf(uid)))])
  /\ UNCHANGED <<store, sync, fetch>>

\* connectGoogleCalendar, line 95
DashConnectStart ==
  /\ ConnectOffered(dash)
  /\ dash' = [dash EXCEPT !.updating = TRUE, !.op = "connect", !.request = "none"]
  /\ UNCHANGED <<store, sync, fetch>>

\* a mutation's catch block: the notification, and the flag cleared
MutationFailedKeepUpdating(d, title) ==
  [d EXCEPT !.toast = title, !.op = "none"]
MutationFailed(d, title) ==
  [d EXCEPT !.toast = title, !.updating = FALSE, !.op = "none"]

\* connectGoogleCalendar, lines 96-117: signInWithOAuth has answered; on
\* success the browser is on its way to the provider's consent page
DashConnectDone ==
  /\ dash.op = "connect"
  /\ \/ dash' = MutationFailed([dash EXCEPT !.request = "error"],
                                "Failed to connect Google Calendar")
     \/ dash' = [dash EXCEPT !.op = "redirect", !.request = "ok"]
  /\ UNCHANGED <<store, sync, fetch>>

\* redirectTo: `${window.location.origin}/`: the page is loaded anew, with or
\* without the user's consent
DashReturn ==
  /\ dash.op = "redirect"
  /\ \E linked \in {TRUE, dash.linked} : dash' = Mounted(linked)
  /\ UNCHANGED <<store, sync, fetch>>

\* syncCalendars, lines 121-123: the flag, and the function is invoked
DashSyncStart(uid, tokens, lists) ==
  /\ SyncOffered(dash)
  /\ dash' = [dash EXCEPT !.updating = TRUE, !.op = "sync", !.request = "none"]
  /\ SyncBegin(1, {uid}, tokens, lists)
  /\ UNCHANGED fetch

\* the store calls of the invoked function
DashSyncRun ==
  /\ \/ SyncDelete(1)
     \/ SyncInsert(1)
     \/ SyncUpsert(1)
  /\ UNCHANGED <<fetch, dash>>

\* syncCalendars, lines 123-142: the function's answer (or no answer) arrives
DashSyncDone ==
  /\ dash.op = "sync"
  /\ sync[1].pc = "done"
  /\ \/ /\ sync[1].response.status = 200
        /\ dash' = [dash EXCEPT !.toast = "Calendars synced successfully",
                                !.pc = "settings", !.request = "ok"]
     \/ dash' = MutationFailed([dash EXCEPT !.request = "error"],
                                "Failed to sync calendars")
  /\ sync' = [sync EXCEPT ![1] = IdleSync]
  /\ UNCHANGED <<store, fetch>>

\* updateCalendarSelection, line 148, from a card of CalendarList
DashSelectStart ==
  /\ SelectOffered(dash)
  /\ \E k \in DOMAIN dash.calendars :
       dash' = [dash EXCEPT !.updating = TRUE, !.op = "select",
                            !.request = "none",
                            !.calendarId = dash.calendars[k].id]
  /\ UNCHANGED <<store, sync, fetch>>

\* a mutation's success path: local state, notification, flag cleared
MutationDoneKeepUpdating(d, settings, title) ==
  [d EXCEPT !.settings = settings, !.toast = title,
            !.op = "none", !.calendarId = NULL, !.enabled = FALSE]
MutationDone(d, settings, title) ==
  [d EXCEPT !.settings = settings, !.toast = title, !.updating = FALSE,
            !.op = "none", !.calendarId = NULL, !.enabled = FALSE]

\* updateCalendarSelection, lines 149-174
DashSelectDone(uid) ==
  /\ dash.op = "select"
  /\ \/ /\ user_settings' =
             Upsert(user_settings,
                    SelectionColumns(uid, dash.calendarId, dash.settings),
                    DefaultSettings(uid))
        /\ dash' = MutationDone([dash EXCEPT !.request = "ok"],
                     IF dash.settings # Nothing
                       THEN [dash.settings EXCEPT
                               !.selected_calendar_id = dash.calendarId]
                       ELSE Nothing,
                     "Calendar selection updated")
     \/ /\ UNCHANGED user_settings
        /\ dash' = MutationFailed([dash EXCEPT !.calendarId = NULL,
                                               !.request = "error"],
                                  "Failed to update selection")
  /\ UNCHANGED <<profiles, user_calendars, sync, fetch>>

\* toggleService, line 180, from the switch: checked is
\* settings?.service_enabled || false and the new value its negation
DashToggleStart ==
  /\ ToggleOffered(dash)
  /\ dash' = [dash EXCEPT !.updating = TRUE, !.op = "toggle",
                          !.request = "none",
                          !.enabled = ~dash.settings.service_enabled]
  /\ UNCHANGED <<store, sync, fetch>>

\* toggleService, lines 181-208
DashToggleDone(uid) ==
  /\ dash.op = "toggle"
  /\ \/ /\ user_settings' =
             Upsert(user_settings,
                    ToggleColumns(uid, dash.enabled, dash.settings),
                    DefaultSettings(uid))
        /\ dash' = MutationDone([dash EXCEPT !.request = "ok"],
                     IF dash.settings # Nothing
                       THEN [dash.settings EXCEPT !.service_enabled = dash.enabled]
                       ELSE Nothing,
                     IF dash.enabled THEN "Calert enabled" ELSE "Calert disabled")
     \/ /\ UNCHANGED user_settings
        /\ dash' = MutationFailed([dash EXCEPT !.enabled = FALSE,
                                               !.request = "error"],
                                  "Failed to update service")
  /\ UNCHANGED <<profiles, user_calendars, sync, fetch>>

\* ------------------------------------------------------------------ specifications
\* the provider's calendar lists without the optional `primary`
PlainLists == ListsFrom(1, FALSE)

SyncStep(i, callers, tokens, lists) ==
  /\ \/ SyncBegin(i, callers, tokens, lists)
     \/ SyncDelete(i)
     \/ SyncInsert(i)
     \/ SyncUpsert(i)
  /\ UNCHANGED <<fetch, dash>>

Init ==
  /\ profiles = EmptyBag
  /\ user_settings = EmptyBag
  /\ user_calendars = EmptyBag
  /\ sync = [i \in Invocations |-> IdleSync]
  /\ fetch = IdleFetch
  /\ dash = Mounted(FALSE)

\* overlapping sync invocations of one user
Next ==
  \E i \in Invocations : SyncStep(i, {"u1"}, Tokens, PlainLists)

Spec == Init /\ [][Next]_vars

\* one sync invocation at a time, of either user
SeqNext == SyncStep(1, Users, Tokens, PlainLists)

SeqSpec == Init /\ [][SeqNext]_vars

\* overlapping sync invocations of one user (the provider lists hold at most
\* one calendar), that user's settings writes from the page in any local state,
\* and the profile upsert of the sign-in listener
StoreNext ==
  \/ \E i \in Invocations :
       SyncStep(i, {"u1"}, {"t1"}, ListsFrom(NumCalendars, FALSE))
  \/ UpdateCalendarSelection("u1", LocalSettings({"t1"}))
  \/ ToggleService("u1", LocalSettings({"t1"}))
  \/ createOrUpdateProfile("u1")

StoreSpec == Init /\ [][StoreNext]_vars

\* user_settings rows as the frontend and the sync function can have left them
SettingsRows(uid) ==
  [user_id : {uid}, selected_calendar_id : CalendarIds \cup {NULL},
   service_enabled : BOOLEAN, google_access_token : Tokens \cup {NULL}]

FetchInit ==
  /\ profiles = EmptyBag
  /\ user_calendars = EmptyBag
  /\ \E mine \in {EmptyBag} \cup {SetToBag({r}) : r \in SettingsRows("u1")},
        other \in {EmptyBag,
                   SetToBag({[DefaultSettings("u2") EXCEPT
                                !.selected_calendar_id = "c1",
                                !.service_enabled = TRUE,
                                !.google_access_token = "t2"]})} :
       user_settings = mine (+) other
  /\ sync = [i \in Invocations |-> IdleSync]
  /\ fetch = IdleFetch
  /\ dash = Mounted(FALSE)

FetchNext ==
  \/ FetchBegin(Users)
  \/ FetchSettings
  \/ FetchEvents

FetchSpec == FetchInit /\ [][FetchNext]_vars

\* the dashboard of one user from its first mount, the sync function it
\* invokes, and the store
DashNext ==
  \/ DashLoadSettings("u1")
  \/ DashLoadCalendars("u1")
  \/ DashConnectStart
  \/ DashConnectDone
  \/ DashReturn
  \/ DashSyncStart("u1", {"t1"}, PlainLists)
  \/ DashSyncRun
  \/ DashSyncDone
  \/ DashSelectStart
  \/ DashSelectDone("u1")
  \/ DashToggleStart
  \/ DashToggleDone("u1")

DashSpec == Init /\ [][DashNext]_vars

\* one sync invocation at a time of one user, the provider's lists with
\* every form of the optional `primary`
PrimaryNext == SyncStep(1, {"u1"}, {"t1"}, CalendarLists)

PrimarySpec == Init /\ [][PrimaryNext]_vars

\* a settings row with every column set, as select, toggle and sync leave it
FilledSettings(uid) ==
  [user_id |-> uid, selected_calendar_id |-> CalendarNames[NumCalendars],
   service_enabled |-> TRUE, google_access_token |-> "t2"]

\* one sync invocation and one fetch invocation at a time, of either user,
\* over a store in which either user may already have rows
FrameInit ==
  /\ profiles = EmptyBag
  /\ \E owners \in SUBSET Users :
       user_settings = SetToBag({FilledSettings(u) : u \in owners})
  /\ \E owners \in SUBSET Users :
       user_calendars =
         SetToBag({CalendarRow(u, [id |-> CalendarNames[NumCalendars]]) : u \in owners})
  /\ sync = [i \in Invocations |-> IdleSync]
  /\ fetch = IdleFetch
  /\ dash = Mounted(FALSE)

FrameNext ==
  \/ SyncStep(1, Users, {"t1"}, ListsFrom(NumCalendars, FALSE))
  \/ FetchBegin(Users)
  \/ FetchSettings
  \/ FetchEventsFrom({<< >>})

FrameSpec == FrameInit /\ [][FrameNext]_vars

\* ------------------------------------------------------------------ properties
\* the step in which invocation i answers 200
SyncAnswers(i) ==
  sync[i].pc = "upsert" /\ sync'[i].pc = "done" /\ sync'[i].response.status = 200

\* the step in which invocation i leaves the part before its first store call
SyncBegins(i) == sync[i].pc \in {"idle", "done"} /\ sync'[i] # sync[i]

\* C1: whenever a sync invocation answers success, the caller's stored
\* user_calendars rows are exactly the calendars fetched in that invocation,
\* each once, whatever the outcome of the delete and for an empty list too.
C1_SyncReplacesCalendarSet ==
  [][\A i \in Invocations :
       SyncAnswers(i) =>
         OwnedBy(user_calendars', {sync[i].user})
           = SeqToBag(calendarInserts(sync[i].user, sync[i].calendars))]_vars

\* C5: an invocation in which a store call reported an error has answered
\* HTTP 500 with success false, never a success.
C5_StorageFailureAnswers500 ==
  \A i \in Invocations :
    (sync[i].pc = "done" /\ \E call \in DOMAIN sync[i].log : sync[i].log[call] = "error")
      => sync[i].response.status = 500 /\ sync[i].response.success = FALSE

\* C6: whenever a sync invocation answers success, the caller has a
\* user_settings row and its google_access_token is the provider token the
\* invocation used.
C6_SuccessStoresProviderToken ==
  [][\A i \in Invocations :
       SyncAnswers(i) =>
         /\ \E r \in Rows(user_settings') : r.user_id = sync[i].user
         /\ \A r \in Rows(user_settings') :
              r.user_id = sync[i].user
                => r.google_access_token = sync[i].providerToken]_vars

\* the answers of the part of the handler that precedes the first store call
EarlyErrors ==
  {<<"No authorization header provided">>,
   <<"Authentication error: ", "invalid JWT">>,
   <<"User not authenticated">>,
   <<"No Google access token found. Please reconnect your Google account.">>}
    \cup {<<"Google Calendar API error: ", status, " - ", "denied">> :
            status \in {401, 500}}

\* C8: a sync invocation that stops for a missing header, an unresolvable
\* identity, an absent provider token or a non-success provider answer
\* answers a failure, and its step leaves every table as it was: it issues
\* no delete, insert or upsert.
C8_EarlyFailureTouchesNothing ==
  [][\A i \in Invocations :
       (SyncBegins(i) /\ sync'[i].pc = "done") =>
         /\ sync'[i].response.status = 500
         /\ sync'[i].response.success = FALSE
         /\ sync'[i].response.error \in EarlyErrors
         /\ sync'[i].log = NoLog
         /\ store' = store]_vars

\* C8 happens: an invocation was stopped by the provider's answer while the
\* caller had calendar rows and a settings row
C8_Witness ==
  \E i \in Invocations :
    /\ sync[i].pc = "done"
    /\ sync[i].response = Failure(<<"Google Calendar API error: ", 401, " - ", "denied">>)
    /\ CalendarsOf("u1") # {}
    /\ SettingsOf("u1") # {}

\* the step in which invocation i's insert fails after its delete succeeded
InsertFailsAfterDelete(i) ==
  /\ sync[i].pc = "insert"
  /\ sync[i].log.delete = "ok"
  /\ sync'[i].pc = "done"

\* C9 as claimed: when the delete succeeded and the insert fails, the
\* invocation answers a failure, the caller's stored calendar set is empty and
\* the settings row is not updated by an upsert of the invocation.
C9_FailedInsertLeavesNoCalendars ==
  [][\A i \in Invocations :
       InsertFailsAfterDelete(i) =>
         /\ sync'[i].response.success = FALSE
         /\ user_settings' = user_settings
         /\ \A r \in Rows(user_calendars') : r.user_id # sync[i].user
         /\ sync'[i].log.upsert = "none"]_vars

\* C9 as amended: the successful delete leaves the caller without calendar
\* rows; the failed insert answers a failure, adds no row and is followed by
\* no settings upsert; and a caller's empty calendar set becomes non-empty only
\* by the successful insert of a sync invocation of that caller, which then
\* answers success.
C9_EmptyUntilSyncInserts ==
  [][/\ \A i \in Invocations :
          /\ (sync[i].pc = "delete" /\ sync'[i].log.delete = "ok")
               => \A r \in Rows(user_calendars') : r.user_id # sync[i].user
          /\ InsertFailsAfterDelete(i) =>
               /\ sync'[i].response.status = 500
               /\ sync'[i].response.success = FALSE
               /\ sync'[i].log.upsert = "none"
               /\ store' = store
          /\ (sync[i].pc = "upsert" /\ sync'[i].pc # "upsert")
               => sync'[i].pc = "done" /\ sync'[i].response.success
     /\ \A u \in Users :
          ( /\ \A r \in Rows(user_calendars) : r.user_id # u
            /\ \E r \in Rows(user_calendars') : r.user_id = u )
            => \E j \in Invocations :
                 /\ sync[j].user = u
                 /\ sync[j].pc = "insert"
                 /\ sync'[j].pc = "upsert"
                 /\ sync'[j].log.insert = "ok"]_vars

\* C9 happens: an invocation's insert failed after its delete succeeded, and
\* the caller is left without calendar rows
C9_Witness ==
  \E i \in Invocations :
    /\ sync[i].pc = "done"
    /\ sync[i].log.delete = "ok"
    /\ sync[i].log.insert = "error"
    /\ CalendarsOf("u1") = {}
    /\ \E j \in Invocations : sync[j].response.status = 200

\* C10: profiles and user_settings hold at most one row per identity and
\* user_calendars at most one row per (identity, calendar id), in every
\* reachable state; an insert that would break this changes nothing and
\* answers the insert error.
C10_UniqueRows ==
  /\ [](/\ UniqueUserId(profiles)
        /\ UniqueUserId(user_settings)
        /\ UniqueUserCalendar(user_calendars))
  /\ [][\A i \in Invocations :
          ( /\ sync[i].pc = "insert"
            /\ sync'[i] # sync[i]
            /\ ~UniqueUserCalendar(
                  user_calendars (+) SeqToBag(calendarInserts(sync[i].user, sync[i].calendars))) )
            => /\ user_calendars' = user_calendars
               /\ sync'[i].response =
                    Failure(<<"Error inserting calendars: ",
                              "duplicate key value violates unique constraint">>)]_vars

\* C10 happens: two overlapping syncs inserted the same calendar, the second
\* insert was rejected, and the profile and the settings row were upserted
\* over an existing row
C10_Witness ==
  /\ \E i \in Invocations :
       sync[i].response =
         Failure(<<"Error inserting calendars: ",
                   "duplicate key value violates unique constraint">>)
  /\ \E r \in Rows(profiles) : r.display_name = "Full Name"
  /\ \E r \in Rows(user_settings) :
       r.service_enabled /\ r.selected_calendar_id # NULL /\ r.google_access_token # NULL
  /\ CalendarsOf("u1") # {}

\* ------------------------------------------------------------------ properties of fetch-events
\* the caller's stored settings row fails one of the four preconditions
PreconditionFails(uid) ==
  \/ SettingsOf(uid) = {}
  \/ \E r \in SettingsOf(uid) :
       \/ ~r.service_enabled
       \/ r.selected_calendar_id = NULL
       \/ r.google_access_token = NULL

\* C2: an identified caller whose settings row is absent, or has
\* service_enabled false, or no selected calendar, or no access token, gets a
\* failure and no request goes to the provider; the message is the one of the
\* first failing check, the four messages differ, and a disabled service
\* answers "Calert service is not enabled" whatever the calendar and token.
C2_PreconditionsBeforeProvider ==
  (fetch.pc = "done" /\ fetch.user # NULL) =>
    LET s == fetch.settings
        r == fetch.response
    IN  /\ s # Nothing => s \in SettingsOf(fetch.user)
        /\ Cardinality({NotFound, NotEnabled, NoCalendar, NoToken}) = 4
        /\ PreconditionFails(fetch.user) =>
             /\ r.status = 500 /\ r.success = FALSE
             /\ fetch.requests = 0
             /\ fetch.upstream = Nothing
        /\ s = Nothing => r.error = NotFound
        /\ (s # Nothing /\ ~s.service_enabled) => r.error = NotEnabled
        /\ (s # Nothing /\ s.service_enabled /\ s.selected_calendar_id = NULL)
             => r.error = NoCalendar
        /\ ( /\ s # Nothing /\ s.service_enabled
             /\ s.selected_calendar_id # NULL /\ s.google_access_token = NULL )
             => r.error = NoToken

\* C2 happens: the service is disabled while a calendar is selected and a
\* token is stored
C2_Witness ==
  /\ fetch.pc = "done"
  /\ fetch.settings # Nothing
  /\ ~fetch.settings.service_enabled
  /\ fetch.settings.selected_calendar_id # NULL
  /\ fetch.settings.google_access_token # NULL
  /\ fetch.response = Failure(NotEnabled)

\* the fetch invocation has answered 200
FetchSucceeded == fetch.pc = "done" /\ fetch.response.status = 200

\* C3: on success nextEvent is a returned event that starts strictly after
\* the request instant and no returned event that starts strictly after the
\* request instant starts earlier; it is null when no returned event starts
\* strictly after the request instant.
C3_NextEventIsEarliestUpcoming ==
  FetchSucceeded =>
    LET returned == fetch.response.events
        next == fetch.response.nextEvent
        upcoming == {k \in DOMAIN returned :
                       Instant(returned[k].startTime) > fetch.now}
    IN  IF upcoming = {}
          THEN next = Nothing
          ELSE /\ \E k \in upcoming : next = returned[k]
               /\ Instant(next.startTime) # fetch.now
               /\ \A k \in upcoming :
                    Instant(next.startTime) <= Instant(returned[k].startTime)

\* C3 happens: the first returned event starts exactly at the request
\* instant and the second later, in another UTC offset
C3_Witness ==
  /\ FetchSucceeded
  /\ Len(fetch.response.events) = 2
  /\ Instant(fetch.response.events[1].startTime) = fetch.now
  /\ fetch.response.events[2].startTime.off # fetch.response.events[1].startTime.off
  /\ fetch.response.nextEvent = fetch.response.events[2]

\* C4: on success a provider event is returned exactly when its start and
\* its end both carry a dateTime; the returned events keep the provider's
\* order and their dateTimes, and totalCount is the length of the list.
C4_OnlyTimedEventsReturned ==
  FetchSucceeded =>
    LET returned == fetch.response.events
    IN  /\ \A j \in DOMAIN fetch.events :
             ( /\ "dateTime" \in DOMAIN fetch.events[j].start
               /\ "dateTime" \in DOMAIN fetch.events[j].end )
               <=> \E k \in DOMAIN returned : returned[k].id = fetch.events[j].id
        /\ \A k \in DOMAIN returned :
             \E j \in DOMAIN fetch.events :
               /\ fetch.events[j].id = returned[k].id
               /\ fetch.events[j].start = [dateTime |-> returned[k].startTime]
               /\ fetch.events[j].end = [dateTime |-> returned[k].endTime]
        /\ \A a, b \in DOMAIN returned : a < b => returned[a].id < returned[b].id
        /\ fetch.response.totalCount = Len(returned)

\* C4 happens: the provider returned an event with a timed start and a
\* date-only end before a timed event, and only the timed one came back
C4_Witness ==
  /\ FetchSucceeded
  /\ Len(fetch.events) = 2
  /\ "dateTime" \in DOMAIN fetch.events[1].start
  /\ "date" \in DOMAIN fetch.events[1].end
  /\ fetch.response.totalCount = 1
  /\ fetch.response.events[1].id = 2

\* C7: a 401 of the provider answers exactly the token-expired message, any
\* other non-success status the generic message with the provider's status
\* and body; both are failures without events, after one provider request.
C7_UpstreamFailures ==
  /\ fetch.requests <= 1
  /\ (fetch.pc = "done" /\ fetch.upstream # Nothing /\ fetch.upstream.status # 200) =>
       /\ fetch.requests = 1
       /\ fetch.response.status = 500
       /\ fetch.response.success = FALSE
       /\ DOMAIN fetch.response = {"status", "success", "error"}
       /\ fetch.upstream.status = 401 =>
            fetch.response.error =
              <<"Google access token expired. Please reconnect your Google account.">>
       /\ fetch.upstream.status # 401 =>
            fetch.response.error =
              <<"Google Calendar API error: ", fetch.upstream.status, " - ",
                fetch.upstream.body>>

\* C7 happens: the provider answered 401
C7_Witness ==
  /\ fetch.pc = "done"
  /\ fetch.upstream = [status |-> 401, body |-> "denied"]
  /\ fetch.requests = 1

\* ------------------------------------------------------------------ properties of the Dashboard
Mutations == {"connect", "sync", "select", "toggle"}

\* the step in which a handler of the page begins / has run to its end
MutationStarts == dash.op = "none" /\ dash'.op \in Mutations
MutationCompletes == dash.op \in Mutations /\ dash'.op \notin Mutations

\* C11 as claimed: each of connect, sync, select and toggle sets the updating
\* flag when it starts, and the flag is false once the mutation has
\* completed, whether it succeeded or failed.
C11_UpdatingClearedOnCompletion ==
  [][/\ MutationStarts => dash'.updating
     /\ MutationCompletes => ~dash'.updating]_vars

\* C11 as amended: each mutation sets the flag when it starts; sync, select
\* and toggle clear it when they complete, with either outcome; connect
\* clears it when its request fails, and leaves it set when its request
\* succeeds, the page then being replaced by a fresh one whose flag is false.
\* The flag is set exactly while a mutation is in flight or the page is
\* being left after a successful connect.
C11_UpdatingClearedUnlessRedirected ==
  /\ [](dash.updating <=> dash.op \in Mutations \cup {"redirect"})
  /\ [][/\ MutationStarts => dash'.updating
        /\ (MutationCompletes /\ dash.op # "connect") =>
             ~dash'.updating /\ dash'.op = "none"
        /\ (MutationCompletes /\ dash.op = "connect") =>
             \/ /\ dash'.op = "none"
                /\ ~dash'.updating
                /\ dash'.toast = "Failed to connect Google Calendar"
             \/ /\ dash'.op = "redirect"
                /\ dash'.updating
                /\ dash'.toast = dash.toast
        /\ dash.op = "redirect" =>
             dash'.op = "none" /\ ~dash'.updating /\ dash'.loading]_vars

\* C11 happens: after the OAuth round trip a sync, a selection and a toggle
\* have completed and the flag is false
C11_Witness ==
  /\ dash.linked
  /\ dash.toast = "Calert enabled"
  /\ hasCalendars(dash.calendars)
  /\ ~dash.updating

\* the notification of each mutation's catch block
FailureTitle(op) ==
  CASE op = "connect" -> "Failed to connect Google Calendar"
    [] op = "sync" -> "Failed to sync calendars"
    [] op = "select" -> "Failed to update selection"
    [] op = "toggle" -> "Failed to update service"

\* the page offers the control that starts mutation `op`
Offered(d, op) ==
  CASE op = "connect" -> ConnectOffered(d)
    [] op = "sync" -> SyncOffered(d)
    [] op = "select" -> SelectOffered(d)
    [] op = "toggle" -> ToggleOffered(d)

\* C14: when the request of connect, sync, select or toggle fails, the
\* mutation leaves the local settings and calendar list as they were when it
\* started, raises its error notification and clears the updating flag; the
\* page is rendered with its controls enabled, offers the failed mutation
\* again and offers connect or sync.  A failure answer of the sync function
\* is such a failure.
C14_FailedMutationNotFatal ==
  [][/\ (MutationCompletes /\ dash'.request = "error") =>
          /\ dash'.settings = dash.settings
          /\ dash'.calendars = dash.calendars
          /\ dash'.toast = FailureTitle(dash.op)
          /\ ~dash'.updating
          /\ dash'.op = "none"
          /\ Interactive(dash')
          /\ Offered(dash', dash.op)
          /\ ConnectOffered(dash') \/ SyncOffered(dash')
     /\ (dash.op \in Mutations /\ dash.request = "none" /\ dash'.request = "none") =>
          /\ dash'.settings = dash.settings
          /\ dash'.calendars = dash.calendars
     /\ ( /\ dash.op = "sync"
          /\ sync[1].pc = "done"
          /\ sync[1].response.status = 500
          /\ dash' # dash ) =>
          MutationCompletes /\ dash'.request = "error"]_vars

\* C14 happens: a sync failed at its insert after its delete had emptied the
\* stored set, the page still lists the calendars it had loaded before, and
\* the selection and the toggle are offered again
C14_Witness ==
  /\ dash.request = "error"
  /\ dash.toast = "Failed to sync calendars"
  /\ CalendarsOf("u1") = {}
  /\ SelectOffered(dash)
  /\ ToggleOffered(dash)

\* C12: once the user has been through the Google OAuth round trip and the
\* page has loaded the settings successfully, hasGoogleConnection is true and
\* the page offers Sync Calendars, before any sync has succeeded.
C12_LinkedUserIsOfferedSync ==
  (dash.linked /\ ~dash.loading /\ dash.settings # Nothing)
    => /\ hasGoogleConnection(dash.settings)
       /\ ~dash.updating => SyncOffered(dash)

\* the locally loaded settings hold a non-null google_access_token
LocalTokenHeld(settings) ==
  settings # Nothing /\ settings.google_access_token # NULL

\* C18: the rendered page treats Google as connected, and offers the Sync
\* action and the calendar selection, only when the locally loaded settings
\* hold a non-null google_access_token; with the local settings still null
\* after a failed load it shows the not-connected state.
C18_ConnectedOnlyWithLocalToken ==
  ~dash.loading =>
    /\ hasGoogleConnection(dash.settings) => LocalTokenHeld(dash.settings)
    /\ SyncOffered(dash) => LocalTokenHeld(dash.settings)
    /\ SelectOffered(dash) => LocalTokenHeld(dash.settings)
    /\ dash.settings = Nothing => ~hasGoogleConnection(dash.settings)

\* ------------------------------------------------------------------ properties of the stored rows
\* the provider marked the calendar as primary
MarkedPrimary(calendar) == "primary" \in DOMAIN calendar /\ calendar.primary

\* C13: when a sync invocation answers success, each stored calendar row of
\* the caller carries the caller's identity and the id of a calendar of the
\* provider's list, and its is_primary is true exactly when the provider
\* marked that calendar as primary (false when the flag is false or absent).
C13_PrimaryFlagStored ==
  [][\A i \in Invocations :
       SyncAnswers(i) =>
         \A r \in Rows(user_calendars') :
           r.user_id = sync[i].user =>
             \E k \in DOMAIN sync[i].calendars :
               /\ sync[i].calendars[k].id = r.calendar_id
               /\ r.is_primary = MarkedPrimary(sync[i].calendars[k])]_vars

\* the rows of the identities other than uid
RowsOfOthers(table, uid) == OwnedBy(table, Users \ {uid})

\* C15: a step of a sync invocation authenticated as u deletes, inserts and
\* upserts only rows whose user_id is u, the settings row a fetch invocation
\* of u reads is a row of u, and so the user_calendars and user_settings rows
\* of every other identity stay as they were.
C15_OnlyOwnRowsTouched ==
  /\ [](fetch.settings # Nothing => fetch.settings.user_id = fetch.user)
  /\ [][/\ \A i \in Invocations :
             (sync[i].pc \in {"delete", "insert", "upsert"} /\ sync'[i] # sync[i]) =>
               /\ RowsOfOthers(user_calendars', sync[i].user)
                    = RowsOfOthers(user_calendars, sync[i].user)
               /\ RowsOfOthers(user_settings', sync[i].user)
                    = RowsOfOthers(user_settings, sync[i].user)
               /\ \A r \in Rows(user_calendars') :
                    r \notin Rows(user_calendars) => r.user_id = sync[i].user
               /\ \A r \in Rows(user_settings') :
                    r \notin Rows(user_settings) => r.user_id = sync[i].user
        /\ \A i \in Invocations :
             (sync[i].pc \in {"idle", "done"} /\ sync'[i] # sync[i]) => store' = store
        /\ fetch' # fetch =>
             \A u \in Users \ {fetch.user} :
               /\ OwnedBy(user_settings', {u}) = OwnedBy(user_settings, {u})
               /\ OwnedBy(user_calendars', {u}) = OwnedBy(user_calendars, {u})]_vars

\* C15 happens: a sync of u1 has replaced u1's calendars and written its
\* token while u2's calendar row and settings row are as they were, and u2's
\* fetch has read u2's row
C15_Witness ==
  /\ sync[1].pc = "done"
  /\ sync[1].log = [delete |-> "ok", insert |-> "ok", upsert |-> "ok"]
  /\ \E r \in SettingsOf("u1") : r.google_access_token = "t1"
  /\ SettingsOf("u2") = {FilledSettings("u2")}
  /\ CalendarsOf("u2") # {}
  /\ fetch.pc = "done"
  /\ fetch.settings = FilledSettings("u2")

\* a row without its google_access_token
WithoutToken(r) == [f \in DOMAIN r \ {"google_access_token"} |-> r[f]]

\* C16: no step of a sync invocation changes selected_calendar_id or
\* service_enabled of an existing settings row (its upsert writes
\* google_access_token only), and no step of a fetch invocation changes any
\* table.
C16_SyncAndFetchFrame ==
  [][/\ \A i \in Invocations :
          sync'[i] # sync[i] =>
            /\ \A r \in Rows(user_settings) :
                 \E q \in Rows(user_settings') : WithoutToken(q) = WithoutToken(r)
            /\ \A u \in Users :
                 SettingsOf(u) # {} =>
                   BagCardinality(OwnedBy(user_settings', {u}))
                     = BagCardinality(OwnedBy(user_settings, {u}))
     /\ fetch' # fetch => store' = store]_vars

\* C16 happens: a sync wrote the token into a settings row that had a
\* selected calendar and the service enabled, and a fetch then succeeded
C16_Witness ==
  /\ SettingsOf("u1") =
       {[FilledSettings("u1") EXCEPT !.google_access_token = "t1"]}
  /\ sync[1].log.upsert = "ok"
  /\ fetch.pc = "done"
  /\ fetch.response.status = 200

\* C17: after any sequence of select, toggle and sync operations, i.e. in
\* every reachable state in which no sync invocation is between its delete
\* and its answer, a user's non-null selected_calendar_id is the calendar id
\* of one of that user's stored user_calendars rows.
C17_SelectionIsStored ==
  (\A i \in Invocations : sync[i].pc \in {"idle", "done"}) =>
    \A r \in Rows(user_settings) :
      r.selected_calendar_id # NULL =>
        \E c \in CalendarsOf(r.user_id) : c.calendar_id = r.selected_calendar_id
====
